---- MODULE Spec2Model ----
(***************************************************************************)
(* Model of src/src/App.tsx: an 8x8 board with a king and a pawn that are  *)
(* moved by drag and drop.  The state is the React state of the            *)
(* components (Chessboard.pieces, Square.state, Piece.dragging) together   *)
(* with the state the drag-and-drop adapter keeps for the gesture in       *)
(* progress (the source data and the current list of drop targets).        *)
(*                                                                         *)
(* JavaScript values that the code inspects dynamically (isCoord,          *)
(* isPieceType) are tagged records, so that a value of the wrong shape can *)
(* be told apart from a well-formed one the way the code tells them apart. *)
(***************************************************************************)
EXTENDS Integers, Sequences, FiniteSets

VARIABLES
    pieces,       \* Chessboard: useState<PieceRecord[]>           (l.171)
    hover,        \* Square: useState<HoveredState>, per square    (l.100)
    dragging,     \* Piece: useState<boolean>, per mounted piece   (l.218)
    active,       \* adapter: a drag gesture is in progress
    source,       \* adapter: source.data of the gesture
    element,      \* adapter: source.element, as the square of the dragged Piece
    dropTargets,  \* adapter: location.current.dropTargets
    last,         \* the handler that ran last and how it ended
    legal,        \* what the last call of canMove returned
    gestures      \* number of drag gestures started so far

vars == <<pieces, hover, dragging, active, source, element, dropTargets,
          last, legal, gestures>>

----------------------------------------------------------------------------
(* JavaScript values *)

JSUndefined == [tag |-> "undefined"]
JSNumber(n) == [tag |-> "number", num |-> n]
JSString(s) == [tag |-> "string", str |-> s]
JSArray(items) == [tag |-> "array", items |-> items]
\* NaN: a value of type number, and the result of arithmetic on a value
\* that is no number
JSNaN == [tag |-> "nan"]
\* an index of an array at which no element is stored (a sparse array such
\* as new Array(2)); it is no value: reading the index gives undefined
JSHole == [tag |-> "hole"]

\* typeof v
TypeOf(v) ==
    CASE v.tag \in {"number", "nan"} -> "number"
      [] v.tag = "array" -> "object"
      [] OTHER -> v.tag

\* token[k-1]: the element stored at the index, undefined at a hole
At(token, k) ==
    IF token.items[k].tag = "hole" THEN JSUndefined ELSE token.items[k]

\* a === b
StrictEquals(a, b) ==
    /\ a.tag = b.tag
    /\ a.tag # "nan"
    /\ a = b

\* a - b: NaN unless both are numbers (undefined converts to NaN)
Minus(a, b) ==
    IF a.tag = "number" /\ b.tag = "number"
    THEN JSNumber(a.num - b.num)
    ELSE JSNaN

\* Math.abs(x)
MathAbs(x) ==
    IF x.tag = "number"
    THEN JSNumber(IF x.num < 0 THEN -x.num ELSE x.num)
    ELSE JSNaN

\* [0, 1].includes(x)
Includes01(x) == x.tag = "number" /\ x.num \in {0, 1}

\* a Coord literal [row, col]                                        (l.17)
Coord(row, col) == JSArray(<<JSNumber(row), JSNumber(col)>>)

----------------------------------------------------------------------------
(* Bounds of the model *)

\* at most this many drag gestures are started in a behaviour
MaxGestures == 2

----------------------------------------------------------------------------
(* Program constants *)

\* renderSquares: for (let row = 0; row < 8; row++)                 (l.152)
BoardRows == 8
\* renderSquares: for (let col = 0; col < 8; col++)                 (l.153)
BoardCols == 8

\* const pieceTypes: PieceType[] = ["king", "pawn"]                  (l.92)
pieceTypes == <<JSString("king"), JSString("pawn")>>

\* the initial value of Chessboard's pieces                      (l.171-174)
InitialPieces ==
    << [type |-> JSString("king"), location |-> Coord(3, 2)],
       [type |-> JSString("pawn"), location |-> Coord(1, 6)] >>

\* renderSquares pushes the squares row by row: index row * 8 + col
SquareIds == 0 .. (BoardRows * BoardCols - 1)
squareCoord(i) == Coord(i \div BoardCols, i % BoardCols)

----------------------------------------------------------------------------
(* Pure functions *)

\* isEqualCoord                                                   (l.33-35)
isEqualCoord(c1, c2) ==
    StrictEquals(At(c1, 1), At(c2, 1)) /\ StrictEquals(At(c1, 2), At(c2, 2))

\* Array.prototype.find: the index of the first piece at a coordinate, 0
\* when there is none (find returns undefined)
FindAt(ps, c) ==
    IF \E i \in 1..Len(ps) : isEqualCoord(ps[i].location, c)
    THEN CHOOSE i \in 1..Len(ps) :
            /\ isEqualCoord(ps[i].location, c)
            /\ \A j \in 1..(i-1) : ~isEqualCoord(ps[j].location, c)
    ELSE 0

\* canMove with a pawn that steps one row in either direction
canMove_PawnEitherWay(start, destination, pieceType, ps) ==
    LET rowDist == MathAbs(Minus(At(start, 1), At(destination, 1)))
        colDist == MathAbs(Minus(At(start, 2), At(destination, 2)))
    IN  IF FindAt(ps, destination) # 0
        THEN FALSE
        ELSE CASE pieceType = JSString("king") ->
                      Includes01(rowDist) /\ Includes01(colDist)
               [] pieceType = JSString("pawn") ->
                      /\ StrictEquals(colDist, JSNumber(0))
                      /\ StrictEquals(rowDist, JSNumber(1))
               [] OTHER -> FALSE

\* canMove without the test for a piece on the destination
canMove_NoOccupancy(start, destination, pieceType, ps) ==
    LET rowDist == MathAbs(Minus(At(start, 1), At(destination, 1)))
        colDist == MathAbs(Minus(At(start, 2), At(destination, 2)))
    IN  CASE pieceType = JSString("king") ->
                 Includes01(rowDist) /\ Includes01(colDist)
          [] pieceType = JSString("pawn") ->
                 /\ StrictEquals(colDist, JSNumber(0))
                 /\ StrictEquals(Minus(At(start, 1), At(destination, 1)),
                                 JSNumber(-1))
          [] OTHER -> FALSE

\* canMove with a king that has to leave its square
canMove_KingMustMove(start, destination, pieceType, ps) ==
    LET rowDist == MathAbs(Minus(At(start, 1), At(destination, 1)))
        colDist == MathAbs(Minus(At(start, 2), At(destination, 2)))
    IN  IF FindAt(ps, destination) # 0
        THEN FALSE
        ELSE CASE pieceType = JSString("king") ->
                      /\ Includes01(rowDist) /\ Includes01(colDist)
                      /\ rowDist.num + colDist.num > 0
               [] pieceType = JSString("pawn") ->
                      /\ StrictEquals(colDist, JSNumber(0))
                      /\ StrictEquals(Minus(At(start, 1), At(destination, 1)),
                                      JSNumber(-1))
               [] OTHER -> FALSE

\* canMove                                                        (l.44-65)
canMove(start, destination, pieceType, ps) ==
    LET rowDist == MathAbs(Minus(At(start, 1), At(destination, 1)))
        colDist == MathAbs(Minus(At(start, 2), At(destination, 2)))
    IN  IF FindAt(ps, destination) # 0
        THEN FALSE
        ELSE CASE pieceType = JSString("king") ->
                      Includes01(rowDist) /\ Includes01(colDist)
               [] pieceType = JSString("pawn") ->
                      /\ StrictEquals(colDist, JSNumber(0))
                      /\ StrictEquals(Minus(At(start, 1), At(destination, 1)),
                                      JSNumber(-1))
               [] OTHER -> FALSE

\* isCoord; Array.prototype.every calls the test only for the indices at
\* which an element is stored, so a hole passes                    (l.84-90)
isCoord(token) ==
    /\ token.tag = "array"
    /\ Len(token.items) = 2
    /\ \A k \in 1..Len(token.items) :
          token.items[k].tag # "hole" => TypeOf(token.items[k]) = "number"

\* isPieceType                                                    (l.94-96)
isPieceType(value) ==
    /\ TypeOf(value) = "string"
    /\ \E k \in 1..Len(pieceTypes) : pieceTypes[k] = value

----------------------------------------------------------------------------
(* Chessboard: the monitor's onDrop                              (l.178-209) *)

\* what a Square registers with getData: () => ({ location })       (l.108)
DropTarget(i) == [square |-> i, data |-> [location |-> squareCoord(i)]]

\* a filter that keeps every piece, the moved one included
restOfPieces_KeepsAll(ps, idx) == ps

\* pieces.filter((p) => p !== piece): every element but the found one; the
\* comparison is by reference, so an equal record elsewhere is kept  (l.198)
RECURSIVE FilterNot(_, _, _)
FilterNot(ps, idx, k) ==
    IF k > Len(ps) THEN <<>>
    ELSE (IF k = idx THEN <<>> ELSE <<ps[k]>>) \o FilterNot(ps, idx, k + 1)

restOfPieces(ps, idx) == FilterNot(ps, idx, 1)

\* the early returns of onDrop                                  (l.179-193)
DropIgnored(src, targets) ==
    \/ Len(targets) = 0
    \/ ~isCoord(targets[1].data.location)
    \/ ~isCoord(src.location)
    \/ ~isPieceType(src.pieceType)

\* onDrop without the call of canMove: any drop of a stored piece commits
DropCommits_NoCanMove(ps, src, targets) ==
    /\ ~DropIgnored(src, targets)
    /\ FindAt(ps, src.location) # 0

\* the condition under which onDrop calls setPieces             (l.200-203)
DropCommits(ps, src, targets) ==
    /\ ~DropIgnored(src, targets)
    /\ canMove(src.location, targets[1].data.location, src.pieceType, ps)
    /\ FindAt(ps, src.location) # 0

\* setPieces with the piece type of the source data instead of piece.type
CommittedPieces_PayloadType(ps, src, targets) ==
    LET idx == FindAt(ps, src.location)
    IN  << [type |-> src.pieceType, location |-> targets[1].data.location] >>
            \o restOfPieces(ps, idx)

\* the argument of setPieces                                    (l.204-207)
CommittedPieces(ps, src, targets) ==
    LET idx == FindAt(ps, src.location)
    IN  << [type |-> ps[idx].type, location |-> targets[1].data.location] >>
            \o restOfPieces(ps, idx)

\* onDrop that trusts the gesture: a stored piece is moved without asking
\* canMove again
MonitorOnDrop_NoRevalidation(ps, src, targets) ==
    IF ~DropIgnored(src, targets) /\ FindAt(ps, src.location) # 0
    THEN CommittedPieces(ps, src, targets)
    ELSE ps

\* onDrop that takes a piece dropped outside every square off the board
MonitorOnDrop_RemovesOutside(ps, src, targets) ==
    IF Len(targets) = 0 /\ isCoord(src.location)
    THEN restOfPieces(ps, FindAt(ps, src.location))
    ELSE IF DropCommits(ps, src, targets)
         THEN CommittedPieces(ps, src, targets)
         ELSE ps

\* onDrop that does not test piece !== undefined and builds the new record
\* from the source data
MonitorOnDrop_PlacesPayload(ps, src, targets) ==
    IF /\ ~DropIgnored(src, targets)
       /\ canMove(src.location, targets[1].data.location, src.pieceType, ps)
    THEN << [type |-> src.pieceType, location |-> targets[1].data.location] >>
            \o restOfPieces(ps, FindAt(ps, src.location))
    ELSE ps

\* the value of pieces after onDrop has run                     (l.178-209)
MonitorOnDrop(ps, src, targets) ==
    IF DropCommits(ps, src, targets)
    THEN CommittedPieces(ps, src, targets)
    ELSE ps

\* how onDrop ended
DropOutcome(ps, src, targets) ==
    IF Len(targets) = 0 THEN "drop:noTarget"
    ELSE IF DropIgnored(src, targets) THEN "drop:malformed"
    ELSE IF DropCommits(ps, src, targets) THEN "drop:commit"
    ELSE IF canMove(src.location, targets[1].data.location, src.pieceType, ps)
         THEN "drop:noPiece"
    ELSE IF FindAt(ps, targets[1].data.location) # 0 THEN "drop:occupied"
    ELSE "drop:illegal"

\* what canMove returned in onDrop, "none" when it was not called
DropLegal(ps, src, targets) ==
    IF DropIgnored(src, targets) THEN "none"
    ELSE IF canMove(src.location, targets[1].data.location, src.pieceType, ps)
         THEN "true" ELSE "false"

----------------------------------------------------------------------------
(* Square: the drop target's callbacks                           (l.106-134) *)

\* canDrop                                                      (l.109-115)
canDrop(i, src) ==
    IF ~isCoord(src.location)
    THEN FALSE
    ELSE ~isEqualCoord(src.location, squareCoord(i))

\* the early return of onDragEnter                              (l.117-122)
EnterIgnored(src) ==
    ~isCoord(src.location) \/ ~isPieceType(src.pieceType)

\* onDragEnter with the two branches exchanged
SquareOnDragEnter_Inverted(h, i, src, ps) ==
    IF EnterIgnored(src)
    THEN h
    ELSE IF canMove(src.location, squareCoord(i), src.pieceType, ps)
         THEN [h EXCEPT ![i] = "invalidMove"]
         ELSE [h EXCEPT ![i] = "validMove"]

\* onDragEnter: the hover states after it ran on square i       (l.116-131)
SquareOnDragEnter(h, i, src, ps) ==
    IF EnterIgnored(src)
    THEN h
    ELSE IF canMove(src.location, squareCoord(i), src.pieceType, ps)
         THEN [h EXCEPT ![i] = "validMove"]
         ELSE [h EXCEPT ![i] = "invalidMove"]

\* what canMove returned in onDragEnter, "none" when it was not called
EnterLegal(i, src, ps) ==
    IF EnterIgnored(src) THEN "none"
    ELSE IF canMove(src.location, squareCoord(i), src.pieceType, ps)
         THEN "true" ELSE "false"

\* onDragLeave that resets a square only from validMove
SquareOnDragLeave_OnlyValid(h, i) ==
    IF h[i] = "validMove" THEN [h EXCEPT ![i] = "idle"] ELSE h

\* onDragLeave: () => setState("idle")                             (l.132)
SquareOnDragLeave(h, i) == [h EXCEPT ![i] = "idle"]

\* a Square without onDrop: the drop leaves its state as it is
SquareOnDrop_Missing(h, i) == h

\* onDrop: () => setState("idle")                                  (l.133)
SquareOnDrop(h, i) == [h EXCEPT ![i] = "idle"]

\* the Square callbacks run for every drop target of the list
RECURSIVE SquaresOnDrop(_, _)
SquaresOnDrop(h, targets) ==
    IF Len(targets) = 0 THEN h
    ELSE SquaresOnDrop(SquareOnDrop(h, targets[1].square), Tail(targets))

----------------------------------------------------------------------------
(* Piece and renderSquares                            (l.150-168, l.216-230) *)

\* getInitialData: () => ({ location, pieceType }) of the piece that
\* renderSquares mounts in square i                          (l.156-162, 226)
getInitialData(ps, i) ==
    [location |-> squareCoord(i),
     pieceType |-> ps[FindAt(ps, squareCoord(i))].type]

\* onDragStart: () => setDragging(true) of the Piece in square i    (l.227)
PieceOnDragStart(d, i) == d \cup {i}

\* a Piece without onDrop: dragging stays true after the gesture
PieceOnDrop_Missing(d, i) == d

\* onDrop: () => setDragging(false) of the dragged Piece           (l.228)
PieceOnDrop(d, i) == d \ {i}

\* the Piece of square i survives the re-render from ps to qs: a piece of
\* the same type is rendered there before and after
Surviving(ps, qs, i) ==
    /\ FindAt(ps, squareCoord(i)) # 0
    /\ FindAt(qs, squareCoord(i)) # 0
    /\ ps[FindAt(ps, squareCoord(i))].type = qs[FindAt(qs, squareCoord(i))].type

----------------------------------------------------------------------------
(* The drag-and-drop adapter: the data a drag can carry *)

\* source.element when the dragged element is no Piece of the board
NoElement == -1

\* source.data while no gesture is in progress
NoData == [location |-> JSUndefined, pieceType |-> JSUndefined]

\* a piece type other than the given one
OtherType(t) == IF t = JSString("king") THEN JSString("pawn") ELSE JSString("king")

\* data of a drag that does not come from a Piece of the current board: the
\* location of a piece with another or no piece type, a coordinate that
\* holds no piece any more, values that are no array of length 2 or store
\* something other than numbers, a sparse array of length 2, and a pair
\* of NaN
ForeignData(ps) ==
    UNION {{[location |-> ps[k].location, pieceType |-> t] :
                t \in {OtherType(ps[k].type), JSString("queen"), JSUndefined}} :
           k \in 1..Len(ps)}
    \cup {[location |-> c, pieceType |-> JSString("king")] :
            c \in {d \in {Coord(3, 2), Coord(1, 6)} : FindAt(ps, d) = 0}}
    \cup {[location |-> JSUndefined, pieceType |-> JSString("king")],
          [location |-> JSArray(<<JSNumber(3)>>), pieceType |-> JSString("pawn")],
          [location |-> JSArray(<<JSNumber(3), JSString("2")>>),
           pieceType |-> JSString("king")],
          [location |-> JSArray(<<JSHole, JSHole>>),
           pieceType |-> JSString("king")],
          [location |-> JSArray(<<JSNaN, JSNaN>>),
           pieceType |-> JSString("king")]}

----------------------------------------------------------------------------
(* The closures of the callbacks: both effects list pieces among their     *)
(* dependencies, so the callbacks are registered anew after every render   *)
(* and read the pieces of that render.                                     *)

\* a Square effect with [location] as dependencies: onDragEnter keeps the
\* pieces of the first render
SquarePieces_FirstRender == InitialPieces

\* the pieces read by Square.onDragEnter: useEffect(..., [location, pieces])
\*                                                            (l.125, l.135)
SquarePieces == pieces

\* a monitor effect with [] as dependencies: onDrop keeps the pieces of the
\* first render
MonitorPieces_FirstRender == InitialPieces

\* the pieces read by the monitor's onDrop: useEffect(..., [pieces])
\*                                                       (l.195-201, l.211)
MonitorPieces == pieces

----------------------------------------------------------------------------
(* The application: a gesture is a drag start, the pointer entering and    *)
(* leaving squares, and a drop.  The adapter delivers one event at a time, *)
(* offers a square as drop target only if its canDrop accepts the source,  *)
(* and lets go of the current target before it enters the next one.        *)

Init ==
    /\ pieces = InitialPieces
    /\ hover = [i \in SquareIds |-> "idle"]
    /\ dragging = {}
    /\ active = FALSE
    /\ source = NoData
    /\ element = NoElement
    /\ dropTargets = <<>>
    /\ last = "none"
    /\ legal = "none"
    /\ gestures = 0

\* the user starts to drag the piece in square i: Piece.onDragStart (l.227)
DragStart(i) ==
    /\ ~active
    /\ gestures < MaxGestures
    /\ FindAt(pieces, squareCoord(i)) # 0
    /\ gestures' = gestures + 1
    /\ active' = TRUE
    /\ source' = getInitialData(pieces, i)
    /\ element' = i
    /\ dragging' = PieceOnDragStart(dragging, i)
    /\ last' = "dragStart"
    /\ legal' = "none"
    /\ UNCHANGED <<pieces, hover, dropTargets>>

\* a drag starts on an element that is no Piece of the board
ForeignDragStart(data) ==
    /\ ~active
    /\ gestures < MaxGestures
    /\ data \in ForeignData(pieces)
    /\ gestures' = gestures + 1
    /\ active' = TRUE
    /\ source' = data
    /\ element' = NoElement
    /\ last' = "foreignStart"
    /\ legal' = "none"
    /\ UNCHANGED <<pieces, hover, dragging, dropTargets>>

\* a hover that moves the piece to the square as soon as the move is valid
DragEnter_Commits(i) ==
    /\ active
    /\ dropTargets = <<>>
    /\ canDrop(i, source)
    /\ hover' = SquareOnDragEnter(hover, i, source, pieces)
    /\ pieces' = MonitorOnDrop(pieces, source, <<DropTarget(i)>>)
    /\ dropTargets' = <<DropTarget(i)>>
    /\ last' = "enter"
    /\ legal' = EnterLegal(i, source, pieces)
    /\ UNCHANGED <<dragging, active, source, element, gestures>>

\* the pointer enters square i: Square.onDragEnter              (l.116-131)
DragEnter(i) ==
    /\ active
    /\ dropTargets = <<>>
    /\ canDrop(i, source)
    /\ hover' = SquareOnDragEnter(hover, i, source, SquarePieces)
    /\ dropTargets' = <<DropTarget(i)>>
    /\ last' = "enter"
    /\ legal' = EnterLegal(i, source, SquarePieces)
    /\ UNCHANGED <<pieces, dragging, active, source, element, gestures>>

\* the pointer leaves the square it is over: Square.onDragLeave    (l.132)
DragLeave ==
    /\ active
    /\ dropTargets # <<>>
    /\ hover' = SquareOnDragLeave(hover, dropTargets[1].square)
    /\ dropTargets' = <<>>
    /\ last' = "leave"
    /\ legal' = "none"
    /\ UNCHANGED <<pieces, dragging, active, source, element, gestures>>

\* the user releases the pointer: Piece.onDrop (l.228), Square.onDrop
\* (l.133) of the drop targets, the monitor's onDrop (l.178-209), and the
\* re-render that unmounts the Piece of a square that lost its piece
Drop ==
    /\ active
    /\ pieces' = MonitorOnDrop(MonitorPieces, source, dropTargets)
    /\ hover' = SquaresOnDrop(hover, dropTargets)
    /\ dragging' = {i \in PieceOnDrop(dragging, element) :
                        Surviving(pieces, pieces', i)}
    /\ active' = FALSE
    /\ source' = NoData
    /\ element' = NoElement
    /\ dropTargets' = <<>>
    /\ last' = DropOutcome(MonitorPieces, source, dropTargets)
    /\ legal' = DropLegal(MonitorPieces, source, dropTargets)
    /\ UNCHANGED gestures

Next ==
    \/ \E i \in SquareIds : DragStart(i)
    \/ \E data \in ForeignData(pieces) : ForeignDragStart(data)
    \/ \E i \in SquareIds : DragEnter(i)
    \/ DragLeave
    \/ Drop

Spec == Init /\ [][Next]_vars

----------------------------------------------------------------------------
(* The handlers on their own: canMove, Square.onDragEnter and the          *)
(* monitor's onDrop are each called once, on a board the application can   *)
(* reach and with arguments that no canDrop has filtered.                  *)

\* boards of the application: the initial one, the king moved next to the
\* pawn, the pawn moved (which puts it first), both moved
HandlerBoards ==
    { InitialPieces,
      << [type |-> JSString("king"), location |-> Coord(2, 5)],
         [type |-> JSString("pawn"), location |-> Coord(1, 6)] >>,
      << [type |-> JSString("pawn"), location |-> Coord(2, 6)],
         [type |-> JSString("king"), location |-> Coord(3, 2)] >>,
      << [type |-> JSString("pawn"), location |-> Coord(7, 0)],
         [type |-> JSString("king"), location |-> Coord(0, 0)] >> }

\* values of source.data.location: every coordinate of the board, values
\* that are no array of length 2 or store something other than numbers, and
\* the sparse arrays new Array(2) and [3, <hole>], and pairs holding NaN
HandlerLocations ==
    {squareCoord(i) : i \in SquareIds}
    \cup {JSUndefined, JSArray(<<JSNumber(3)>>),
          JSArray(<<JSNumber(3), JSString("2")>>),
          JSArray(<<JSUndefined, JSUndefined>>),
          JSArray(<<JSHole, JSHole>>),
          JSArray(<<JSNumber(3), JSHole>>),
          JSArray(<<JSNaN, JSNaN>>),
          JSArray(<<JSNumber(3), JSNaN>>)}

\* values of source.data.pieceType
HandlerTypes == {JSString("king"), JSString("pawn"), JSString("queen"), JSUndefined}

HandlerData == [location : HandlerLocations, pieceType : HandlerTypes]

\* values of location.current.dropTargets: none, a square, a target whose
\* data carries no location, one whose location is a sparse array, and one
\* whose location is a pair of NaN
HandlerTargets ==
    {<<>>} \cup {<<DropTarget(i)>> : i \in SquareIds}
    \cup {<<[square |-> 0, data |-> [location |-> JSUndefined]]>>,
          <<[square |-> 0, data |-> [location |-> JSArray(<<JSHole, JSHole>>)]]>>,
          <<[square |-> 0, data |-> [location |-> JSArray(<<JSNaN, JSNaN>>)]]>>}

InitHandlers ==
    /\ pieces \in HandlerBoards
    /\ hover = [i \in SquareIds |-> "idle"]
    /\ dragging = {}
    /\ active = TRUE
    /\ source \in HandlerData
    /\ element = NoElement
    /\ dropTargets = <<>>
    /\ last = "none"
    /\ legal = "none"
    /\ gestures = 0

\* canMove(source.location, squareCoord(i), source.pieceType, pieces)
CallCanMove(i) ==
    /\ last = "none"
    /\ isCoord(source.location) /\ isPieceType(source.pieceType)
    /\ legal' = IF canMove(source.location, squareCoord(i), source.pieceType, pieces)
                THEN "true" ELSE "false"
    /\ dropTargets' = <<DropTarget(i)>>
    /\ last' = "canMove"
    /\ UNCHANGED <<pieces, hover, dragging, active, source, element, gestures>>

\* onDragEnter({ source }) of square i
CallOnDragEnter(i) ==
    /\ last = "none"
    /\ hover' = SquareOnDragEnter(hover, i, source, pieces)
    /\ legal' = EnterLegal(i, source, pieces)
    /\ dropTargets' = <<DropTarget(i)>>
    /\ last' = "enter"
    /\ UNCHANGED <<pieces, dragging, active, source, element, gestures>>

\* onDrop({ source, location }) of the monitor
CallOnDrop(targets) ==
    /\ last = "none"
    /\ pieces' = MonitorOnDrop(pieces, source, targets)
    /\ legal' = DropLegal(pieces, source, targets)
    /\ dropTargets' = targets
    /\ last' = DropOutcome(pieces, source, targets)
    /\ UNCHANGED <<hover, dragging, active, source, element, gestures>>

NextHandlers ==
    \/ \E i \in SquareIds : CallCanMove(i)
    \/ \E i \in SquareIds : CallOnDragEnter(i)
    \/ \E targets \in HandlerTargets : CallOnDrop(targets)

SpecHandlers == InitHandlers /\ [][NextHandlers]_vars

----------------------------------------------------------------------------
(* Properties *)

\* row and column of a pair of numbers, and the absolute value
Row(c) == c.items[1].num
Col(c) == c.items[2].num
Abs(n) == IF n < 0 THEN -n ELSE n

\* the squares of the board holding a piece, read off the board itself
Occupied(ps, c) == \E k \in 1..Len(ps) : ps[k].location = c

\* the destination handed to the handler that ran last
Destination == dropTargets[1].data.location

\* a pair of numbers: an array that stores a value of type number, NaN
\* included, at each of its two indices
PairOfNumbers(v) ==
    /\ v.tag = "array"
    /\ Len(v.items) = 2
    /\ \A k \in 1..Len(v.items) : v.items[k].tag \in {"number", "nan"}

\* a pair of numbers without NaN: only such a pair has a row and a column
\* that enter an equation (every comparison with NaN is false)
HasRowAndCol(v) ==
    /\ PairOfNumbers(v)
    /\ \A k \in 1..Len(v.items) : v.items[k].tag = "number"

\* a call of canMove on a pawn, an origin that is a pair of numbers and a
\* free destination has returned
PawnCall ==
    /\ last = "canMove"
    /\ PairOfNumbers(source.location)
    /\ source.pieceType = JSString("pawn")
    /\ ~Occupied(pieces, Destination)

\* C1 as stated: a pawn move to a free square is legal iff it stays in its
\* column and destination.row - origin.row = -1
C1_PawnDecreasingRow ==
    PawnCall =>
        (legal = "true" <=>
            /\ HasRowAndCol(source.location)
            /\ Col(Destination) = Col(source.location)
            /\ Row(Destination) - Row(source.location) = -1)

\* C1 amended: a pawn move to a free square is legal iff it stays in its
\* column and destination.row - origin.row = +1 (one step toward increasing
\* row); on the initial board (1,6)->(2,6) is legal and (1,6)->(0,6) is not
C1_PawnIncreasingRow ==
    /\ PawnCall =>
        (legal = "true" <=>
            /\ HasRowAndCol(source.location)
            /\ Col(Destination) = Col(source.location)
            /\ Row(Destination) - Row(source.location) = 1)
    /\ (PawnCall /\ pieces = InitialPieces /\ source.location = Coord(1, 6)) =>
        /\ Destination = Coord(2, 6) => legal = "true"
        /\ Destination = Coord(0, 6) => legal = "false"

C1_Witness ==
    /\ PawnCall
    /\ pieces = InitialPieces
    /\ source.location = Coord(1, 6)
    /\ Destination = Coord(2, 6)
    /\ legal = "true"

\* C2: canMove returns false for a destination on which the board holds a
\* piece, whatever the origin and the piece type
C2_OccupiedRejected ==
    (last = "canMove" /\ Occupied(pieces, Destination)) => legal = "false"

\* the king next to the pawn is refused the pawn's square
C2_Witness ==
    /\ last = "canMove"
    /\ source = [location |-> Coord(2, 5), pieceType |-> JSString("king")]
    /\ Destination = Coord(1, 6)
    /\ Occupied(pieces, Destination)
    /\ legal = "false"

\* C3: a king move to a free square is legal iff the row distance and the
\* column distance are both 0 or 1, the move to its own free square included
C3_KingLegality ==
    (/\ last = "canMove"
     /\ PairOfNumbers(source.location)
     /\ source.pieceType = JSString("king")
     /\ ~Occupied(pieces, Destination)) =>
        (legal = "true" <=>
            /\ HasRowAndCol(source.location)
            /\ Abs(Row(source.location) - Row(Destination)) \in {0, 1}
            /\ Abs(Col(source.location) - Col(Destination)) \in {0, 1})

\* the zero-distance move: origin = destination, free on the board passed in
C3_Witness ==
    /\ last = "canMove"
    /\ source.pieceType = JSString("king")
    /\ source.location = Destination
    /\ ~Occupied(pieces, Destination)
    /\ legal = "true"

----------------------------------------------------------------------------
(* Properties of the drop *)

\* a step in which the gesture ends: the drop handlers run
DropStep == active /\ ~active'

\* the source data are a Coord and a PieceType
WellFormedSource == isCoord(source.location) /\ isPieceType(source.pieceType)

\* C4: a drop with a drop target, well-formed data, a piece stored at the
\* origin and canMove true yields a board of the same size on which that
\* piece stands on the destination with its type, nothing stands on the
\* origin, and every other piece is as before
C4_CommitEffect ==
    [][ (/\ DropStep
         /\ dropTargets # <<>>
         /\ WellFormedSource
         /\ Occupied(pieces, source.location)
         /\ canMove(source.location, Destination, source.pieceType, pieces))
        => LET k == CHOOSE k \in 1..Len(pieces) :
                        pieces[k].location = source.location
               moved == [type |-> pieces[k].type, location |-> Destination]
           IN  /\ Len(pieces') = Len(pieces)
               /\ \E m \in 1..Len(pieces') : pieces'[m] = moved
               /\ ~Occupied(pieces', source.location)
               /\ \A j \in 1..Len(pieces) :
                     j # k => \E m \in 1..Len(pieces') : pieces'[m] = pieces[j]
      ]_vars

\* a commit has run after which neither piece stands on its initial square
C4_Witness ==
    /\ last = "drop:commit"
    /\ ~Occupied(pieces, Coord(3, 2))
    /\ ~Occupied(pieces, Coord(1, 6))

\* C5: no two pieces of the board have the same coordinate
C5_OnePiecePerSquare ==
    \A j, k \in 1..Len(pieces) :
        j # k => pieces[j].location # pieces[k].location

\* a piece was dropped on the square of the other piece
C5_Witness == last = "drop:occupied"

\* C6: a drop for which canMove, called on the current board, returns false
\* leaves the board unchanged, whatever the hover states of the squares
C6_IllegalDropRejected ==
    [][ (/\ DropStep
         /\ dropTargets # <<>>
         /\ WellFormedSource
         /\ ~canMove(source.location, Destination, source.pieceType, pieces))
        => pieces' = pieces ]_vars

\* a drop was refused on a board that a commit had produced
C6_Witness ==
    /\ last = "drop:illegal"
    /\ legal = "false"
    /\ pieces # InitialPieces

\* C7: a drop with an empty list of drop targets leaves the board unchanged
C7_NoTargetNoChange ==
    [][ (DropStep /\ dropTargets = <<>>) => pieces' = pieces ]_vars

\* a gesture that started on a piece of a changed board ended outside
C7_Witness ==
    /\ last = "drop:noTarget"
    /\ pieces # InitialPieces

\* C9: a drop whose well-formed data name an origin on which the board
\* holds no piece leaves the board unchanged
C9_NoPieceAtOrigin ==
    [][ (/\ DropStep
         /\ dropTargets # <<>>
         /\ WellFormedSource
         /\ ~Occupied(pieces, source.location))
        => pieces' = pieces ]_vars

\* canMove returned true and no piece was found at the origin
C9_Witness ==
    /\ last = "drop:noPiece"
    /\ legal = "true"

\* C10: the board changes only in a drop that commits; drag start, hover
\* enter and hover leave leave it as it is
C10_OnlyCommitChangesBoard ==
    [][ /\ pieces' # pieces =>
            /\ DropStep
            /\ dropTargets # <<>>
            /\ WellFormedSource
            /\ Occupied(pieces, source.location)
            /\ canMove(source.location, Destination, source.pieceType, pieces)
        /\ last' \in {"dragStart", "foreignStart", "enter", "leave"} =>
            pieces' = pieces
      ]_vars

\* a hover enter has found a valid move on a board that a commit produced
C10_Witness ==
    /\ last = "enter"
    /\ legal = "true"
    /\ hover[dropTargets[1].square] = "validMove"
    /\ pieces # InitialPieces

----------------------------------------------------------------------------
(* Properties of the handlers called on their own *)

DropOutcomes ==
    {"drop:noTarget", "drop:malformed", "drop:commit", "drop:noPiece",
     "drop:occupied", "drop:illegal"}

\* a piece type among king and pawn
KnownKind(v) == v.tag = "string" /\ v.str \in {"king", "pawn"}

\* C8 as stated: onDrop called with an origin or a destination that is no
\* pair of numbers, or with a kind that is neither king nor pawn, leaves the
\* board unchanged, and onDragEnter called with such an origin or kind
\* leaves every hover state unchanged
C8_MalformedIgnored ==
    [][ /\ (/\ last' = "enter"
            /\ ~(PairOfNumbers(source.location) /\ KnownKind(source.pieceType)))
           => hover' = hover
        /\ (/\ last' \in DropOutcomes
            /\ \/ ~(PairOfNumbers(source.location) /\ KnownKind(source.pieceType))
               \/ /\ dropTargets' # <<>>
                  /\ ~PairOfNumbers(dropTargets'[1].data.location))
           => pieces' = pieces
      ]_vars

----------------------------------------------------------------------------
(* Properties of the hover states *)

\* the square the pointer is over
Hovered == dropTargets[1].square

BoolString(b) == IF b THEN "true" ELSE "false"

\* C12: after a hover enter on a square with well-formed source data the
\* square is validMove if canMove holds for the data, the square and the
\* current board, and invalidMove otherwise
C12_HoverClassification ==
    (last = "enter" /\ WellFormedSource) =>
        hover[Hovered] =
            IF canMove(source.location, squareCoord(Hovered),
                       source.pieceType, pieces)
            THEN "validMove" ELSE "invalidMove"

\* a square that held a piece on the initial board is classified validMove
\* once a commit has emptied it
C12_Witness ==
    /\ last = "enter"
    /\ WellFormedSource
    /\ Occupied(InitialPieces, Destination)
    /\ hover[Hovered] = "validMove"

\* C13: the legality check of a drop reads the board that the most recent
\* commit produced (the initial board before any commit): what canMove
\* returned and whether the drop commits are decided on the current board, a
\* commit moves a piece of that board, and it yields another board, so that
\* the next drop does not commit against the same board
C13_DropReadsCurrentBoard ==
    [][ DropStep =>
          /\ legal' \in {"none", BoolString(dropTargets # <<>> /\ WellFormedSource
                 /\ canMove(source.location, Destination, source.pieceType, pieces))}
          /\ pieces' # pieces =>
                /\ dropTargets # <<>>
                /\ WellFormedSource
                /\ Occupied(pieces, source.location)
                /\ ~Occupied(pieces, Destination)
                /\ \A m \in 1..Len(pieces') :
                      \/ \E k \in 1..Len(pieces) : pieces'[m] = pieces[k]
                      \/ pieces'[m].location = Destination
          /\ (/\ dropTargets # <<>>
              /\ WellFormedSource
              /\ Occupied(pieces, source.location)
              /\ canMove(source.location, Destination, source.pieceType, pieces))
             => pieces' # pieces
      ]_vars

\* a second commit has run: it moved a piece off the square to which the
\* first commit had moved a piece
C13_Witness ==
    /\ last = "drop:commit"
    /\ gestures = 2
    /\ \A k \in 1..Len(pieces) : pieces[k].location # Coord(3, 2)
    /\ \E k \in 1..Len(pieces) :
          /\ pieces[k].type = JSString("king")
          /\ Abs(Row(pieces[k].location) - 3) = 2

\* C14: a hover leave and a drop set the state of the square they are
\* delivered to to idle, whatever it was and however the drop ends
C14_LeaveAndDropReset ==
    [][ /\ last' = "leave" => hover'[Hovered] = "idle"
        /\ (DropStep /\ dropTargets # <<>>) => hover'[Hovered] = "idle"
      ]_vars

\* in a gesture that carries a king the pointer has left a square
C14_Witness ==
    /\ last = "leave"
    /\ source.pieceType = JSString("king")
    /\ \A i \in SquareIds : hover[i] = "idle"

----------------------------------------------------------------------------
(* Properties of a whole gesture *)

AllIdle(h) == \A i \in SquareIds : h[i] = "idle"

\* qs is ps with exactly one piece moved to another square of the board
OneMove(ps, qs) ==
    /\ Len(qs) = Len(ps)
    /\ \E k \in 1..Len(ps), m \in 1..Len(qs) :
          /\ qs[m].type = ps[k].type
          /\ qs[m].location # ps[k].location
          /\ \E i \in SquareIds : qs[m].location = squareCoord(i)
          /\ \A j \in 1..Len(ps) :
                j # k => \E n \in 1..Len(qs) : n # m /\ qs[n] = ps[j]

\* C15: when a gesture ends, by a drop that commits, a drop that is refused
\* or a drop outside every square, every square is idle and the board is
\* the board before the drop or that board with one piece moved
C15_GestureEndsClean ==
    [][ DropStep =>
          /\ AllIdle(hover')
          /\ pieces' = pieces \/ OneMove(pieces, pieces')
      ]_vars

\* a drop on a square has been refused on the initial board
C15_Witness ==
    /\ last = "drop:illegal"
    /\ pieces = InitialPieces
    /\ AllIdle(hover)
    /\ ~active

\* C16: no piece is dragging initially and whenever no gesture is in
\* progress, and during the gesture that started on a piece exactly that
\* piece is dragging
C16_DraggingFollowsGesture ==
    /\ ~active => dragging = {}
    /\ (active /\ element # NoElement) => dragging = {element}
    /\ (active /\ element = NoElement) => dragging = {}

\* a second gesture drags a piece of a board changed by the first one
C16_Witness ==
    /\ active
    /\ element # NoElement
    /\ dragging = {element}
    /\ gestures = 2
    /\ pieces # InitialPieces

\* C17 as stated: the square of the origin is never a drop target of the
\* gesture (its canDrop refuses the source, as the canDrop of every square
\* refuses a location that is no pair of numbers), and no commit has the
\* origin as destination
C17_NeverOwnSquare ==
    [][ /\ dropTargets' # <<>> =>
            /\ PairOfNumbers(source'.location)
            /\ source'.location # Destination'
        /\ pieces' # pieces => Destination # source.location
      ]_vars

\* C18 as stated: if a drop changes the board then canMove holds for the
\* origin, the destination and the type of the piece stored at the origin
C18_CommitLegalForStoredType ==
    [][ pieces' # pieces =>
          LET k == CHOOSE k \in 1..Len(pieces) :
                      pieces[k].location = source.location
          IN  canMove(source.location, Destination, pieces[k].type, pieces)
      ]_vars

\* C19: the board holds exactly two pieces, one king and one pawn, each on a
\* coordinate with row and column in 0..7
C19_OneKingOnePawn ==
    /\ Len(pieces) = 2
    /\ Cardinality({k \in 1..Len(pieces) : pieces[k].type = JSString("king")}) = 1
    /\ Cardinality({k \in 1..Len(pieces) : pieces[k].type = JSString("pawn")}) = 1
    /\ \A k \in 1..Len(pieces) :
          /\ isCoord(pieces[k].location)
          /\ Row(pieces[k].location) \in 0..7
          /\ Col(pieces[k].location) \in 0..7

\* a commit has moved the pawn out of its column, which only source data
\* with the type king can do
C19_Witness ==
    /\ last = "drop:commit"
    /\ \E k \in 1..Len(pieces) :
          /\ pieces[k].type = JSString("pawn")
          /\ Col(pieces[k].location) # 6

\* C20: a drop of a gesture that started on a piece of the board, on the
\* square the pointer entered last, commits iff that square is validMove
C20_HoverAndDropAgree ==
    [][ (DropStep /\ element # NoElement /\ dropTargets # <<>>) =>
          (pieces' # pieces <=> hover[Hovered] = "validMove")
      ]_vars

\* the first gesture has moved the king one column to the right, which no
\* source data but those of the king itself allow
C20_Witness ==
    /\ last = "drop:commit"
    /\ gestures = 1
    /\ pieces = << [type |-> JSString("king"), location |-> Coord(3, 3)],
                   [type |-> JSString("pawn"), location |-> Coord(1, 6)] >>

====
